---- MODULE Spec2Model ----
(***************************************************************************)
(* A model of batrun (src/batrun.py): the Duration/Timer utility, the      *)
(* TestRecord result setter, TestRunner.add_test_suite / run_tests, main() *)
(* and the BashTestDriver discovery algorithm.                             *)
(*                                                                         *)
(* Four specifications share the variables:                                *)
(*   Spec        main(): the timed loop over add_test_suite, plus calls of *)
(*               Duration.elapsed() on the runner's Duration;              *)
(*   SpecRecord  TestRecord construction and set_result call sequences;    *)
(*   SpecDriver  BashTestDriver.discover_tests, repeated on an unchanged   *)
(*               directory;                                                *)
(*   SpecRun     discover_tests followed by TestRunner.run_tests.          *)
(***************************************************************************)
EXTENDS Integers, Sequences, FiniteSets, TLC

VARIABLES
    phase,        \* which specification's scenario the behaviour belongs to
    clock,        \* what datetime.now() returns
    \* ---- main() ----
    suite_dirs,   \* settings.test_suite_dirs
    disk,         \* per suite directory: manifest state, declared fixture, fixture file
    pc,           \* position in main()
    i,            \* index of the for loop of main()
    duration,     \* test_runner.duration
    test_suites,  \* test_runner.test_suites
    exc,          \* the exception in flight ("none" when there is none)
    bodyExc,      \* the exception the body of the with block raised (history)
    printed,      \* the 'Total time taken' line was printed
    elapsedOut,   \* outcome of the last Duration.elapsed() call
    \* ---- TestRecord ----
    record,       \* one TestRecord
    setCalls,     \* the results passed to set_result so far, in order
    \* ---- BashTestDriver / run_tests ----
    bound,        \* the names discover_tests reads but the class never assigns
                  \* (self.test_suite_dir, self.targets, GLOBAL_TEST_FILE) are set
    suiteFiles,   \* the files of the suite directory (paths relative to it)
    shell,        \* per file: what the child bash does when asked to list its functions
    targets,      \* the requested targets (--target is action="append")
    dry_run,      \* settings.dry_run
    out_dir_exists, \* settings.out_dir is on disk
    dpc,          \* position of the caller: ready, scan, returned, raised, ended
    test_files,   \* discover_tests: the sorted list of test files
    idx,          \* discover_tests: index of the file being visited
    test_records, \* discover_tests: the list being built
    records,      \* the list the last discover_tests returned
    history,      \* the qualified names each completed discovery returned
    spawned,      \* child processes started so far
    logged,       \* files whose introspection failure was printed
    error         \* the exception that left discover_tests ("none" when none)

drvEnv == <<bound, suiteFiles, shell, targets, dry_run>>

drvVars == <<out_dir_exists, dpc, test_files, idx, test_records, records, history,
             spawned, logged, error>>

drv == <<drvEnv, drvVars>>

vars == <<phase, clock, suite_dirs, disk, pc, i, duration, test_suites, exc,
          bodyExc, printed, elapsedOut, record, setCalls, drv>>

mainVars == <<suite_dirs, disk, pc, i, duration, test_suites, exc, bodyExc,
              printed, elapsedOut>>

recordVars == <<record, setCalls>>

----------------------------------------------------------------------------
(* Bounds *)

MaxClock == 3
MaxDirs == 2
MaxCalls == 3
MaxFiles == 2
MaxTargets == 2
MaxRuns == 2

SuiteDirs == {"suiteA", "suiteB"}

----------------------------------------------------------------------------
(* Duration and Timer *)

\* Python's None for a timestamp; datetime.now() values are 1..MaxClock
None == 0

\* Duration(): start_time = None, end_time = None
NewDuration == [start_time |-> None, end_time |-> None]

\* no call of elapsed() yet
NoOutcome == [kind |-> "none", val |-> 0, exc |-> "none"]

\* a call record: the Duration elapsed() was called on and what came out
Call(d, out) == [self |-> d, out |-> out]

\* a faulty variant of elapsed: None is read as 0 instead of failing
elapsed_NoneAsZero(d) == [kind |-> "value", val |-> d.end_time - d.start_time, exc |-> "none"]

\* Duration.elapsed: end_time - start_time; '-' on None raises TypeError
elapsed(d) ==
    IF d.start_time = None \/ d.end_time = None
    THEN [kind |-> "raise", val |-> 0, exc |-> "TypeError"]
    ELSE [kind |-> "value", val |-> d.end_time - d.start_time, exc |-> "none"]

\* Timer.__enter__: stamps start_time
Timer_enter(d, now) == [d EXCEPT !.start_time = now]

\* a faulty variant of Timer.__exit__: returns self whatever happened (a truthy value)
Timer_exit_AlwaysSelf(d, now, excType) ==
    [duration |-> [d EXCEPT !.end_time = now], ret |-> "self"]

\* Timer.__exit__: stamps end_time; returns self when no exception is in
\* flight and falls off the end (None) otherwise
Timer_exit(d, now, excType) ==
    [duration |-> [d EXCEPT !.end_time = now],
     ret |-> IF excType = "none" THEN "self" ELSE "None"]

\* the with statement suppresses the exception iff __exit__ returned a true
\* value; a Timer object is truthy, None is not
Truthy(ret) == ret = "self"

----------------------------------------------------------------------------
(* TestSuiteConfig.load and TestRunner.add_test_suite *)

\* what a suite directory holds: the manifest test-suite.json (missing, not
\* JSON, or an object), whether the manifest has a "global-fixture" key, and
\* whether that fixture file is on disk
DiskStates ==
    { [manifest |-> "missing", declares |-> FALSE, fixture |-> FALSE],
      [manifest |-> "malformed", declares |-> FALSE, fixture |-> FALSE] }
    \cup { [manifest |-> "ok", declares |-> dc, fixture |-> fx] :
             dc \in BOOLEAN, fx \in BOOLEAN }

\* TestSuiteConfig.load: open() raises when the manifest is missing,
\* json.load raises when it is not JSON; otherwise the config is built from
\* the keys (global_fixture is None when the key is absent).  Nothing looks
\* at the fixture file.
load(dir, d) ==
    CASE d.manifest = "missing" -> [exc |-> "FileNotFoundError", config |-> [dir |-> dir, global_fixture |-> "None"]]
      [] d.manifest = "malformed" -> [exc |-> "JSONDecodeError", config |-> [dir |-> dir, global_fixture |-> "None"]]
      [] OTHER -> [exc |-> "none",
                   config |-> [dir |-> dir,
                               global_fixture |-> IF d.declares THEN "tests.sh" ELSE "None"]]

\* TestSuite(config)
NewTestSuite(config) == [config |-> config, test_records |-> <<>>, duration |-> None]

\* self.test_suites[test_suite_dir] = TestSuite(config)
Register(suites, dir, config) ==
    [d \in (DOMAIN suites) \cup {dir} |->
        IF d = dir THEN NewTestSuite(config) ELSE suites[d]]

\* TestRunner.add_test_suite
add_test_suite(suites, dir, d) ==
    LET l == load(dir, d) IN
    IF l.exc # "none"
    THEN [exc |-> l.exc, test_suites |-> suites]
    ELSE [exc |-> "none", test_suites |-> Register(suites, dir, l.config)]

----------------------------------------------------------------------------
(* TestRecord *)

TestResult == {"NOTRUN", "RUNNING", "FAILED", "PASSED", "SKIPPED", "DRYRUN"}

\* TestRecord.__init__: result NOTRUN, duration None
NewTestRecord(file, name, target) ==
    [file |-> file, name |-> name, target |-> target, result |-> "NOTRUN",
     duration |-> [type |-> "NoneType", at |-> None]]

\* TestRecord.set_result: self.duration = datetime.now(); self.result = result
set_result(rec, result, now) ==
    [rec EXCEPT !.duration = [type |-> "datetime", at |-> now], !.result = result]

----------------------------------------------------------------------------
(* main() *)

SeqsUpTo(S, n) == UNION { [1..k -> S] : k \in 1..n }

IdleRecord == NewTestRecord(<<>>, <<>>, "none")

MainIdle ==
    /\ suite_dirs = <<>>
    /\ disk = [d \in SuiteDirs |-> [manifest |-> "missing", declares |-> FALSE, fixture |-> FALSE]]
    /\ pc = "idle"
    /\ i = 1
    /\ duration = NewDuration
    /\ test_suites = <<>>
    /\ exc = "none"
    /\ bodyExc = "none"
    /\ printed = FALSE
    /\ elapsedOut = Call(NewDuration, NoOutcome)

RecordIdle ==
    /\ record = IdleRecord
    /\ setCalls = <<>>

DriverIdle ==
    /\ bound = FALSE
    /\ suiteFiles = {}
    /\ shell = <<>>
    /\ targets = <<>>
    /\ dry_run = FALSE
    /\ out_dir_exists = FALSE
    /\ dpc = "idle"
    /\ test_files = <<>>
    /\ idx = 1
    /\ test_records = <<>>
    /\ records = <<>>
    /\ history = <<>>
    /\ spawned = 0
    /\ logged = {}
    /\ error = "none"

\* after Cli() and TestRunner(cli.settings()): nargs='+' gives at least one
\* suite directory; the runner holds Duration() and no suite
Init ==
    /\ phase = "main"
    /\ clock = 1
    /\ suite_dirs \in SeqsUpTo(SuiteDirs, MaxDirs)
    /\ disk \in [SuiteDirs -> DiskStates]
    /\ pc = "with"
    /\ i = 1
    /\ duration = NewDuration
    /\ test_suites = <<>>
    /\ exc = "none"
    /\ bodyExc = "none"
    /\ printed = FALSE
    /\ elapsedOut = Call(NewDuration, NoOutcome)
    /\ RecordIdle
    /\ DriverIdle

\* wall-clock time passes
Tick ==
    /\ clock < MaxClock
    /\ clock' = clock + 1
    /\ UNCHANGED <<phase, mainVars, recordVars, drv>>

\* with Timer(test_runner.duration): __enter__
TimerEnter ==
    /\ phase = "main" /\ pc = "with"
    /\ duration' = Timer_enter(duration, clock)
    /\ pc' = "body"
    /\ UNCHANGED <<phase, clock, suite_dirs, disk, i, test_suites, exc, bodyExc,
                   printed, elapsedOut, recordVars, drv>>

\* one iteration of the for loop: add_test_suite(test_suite_dir), then the
\* prints; an exception leaves the body
AddTestSuite ==
    /\ phase = "main" /\ pc = "body" /\ i <= Len(suite_dirs)
    /\ LET r == add_test_suite(test_suites, suite_dirs[i], disk[suite_dirs[i]]) IN
        /\ test_suites' = r.test_suites
        /\ exc' = r.exc
        /\ bodyExc' = r.exc
        /\ IF r.exc = "none"
           THEN pc' = "body" /\ i' = i + 1
           ELSE pc' = "unwind" /\ i' = i
    /\ UNCHANGED <<phase, clock, suite_dirs, disk, duration, printed, elapsedOut,
                   recordVars, drv>>

\* leaving the with block: __exit__, then the exception (if any) is
\* suppressed or re-raised according to the value __exit__ returned
TimerExit ==
    /\ phase = "main"
    /\ \/ pc = "body" /\ i > Len(suite_dirs)
       \/ pc = "unwind"
    /\ LET r == Timer_exit(duration, clock, exc) IN
        /\ duration' = r.duration
        /\ IF exc # "none" /\ ~Truthy(r.ret)
           THEN pc' = "raised" /\ exc' = exc
           ELSE pc' = "after" /\ exc' = "none"
    /\ UNCHANGED <<phase, clock, suite_dirs, disk, i, test_suites, bodyExc,
                   printed, elapsedOut, recordVars, drv>>

\* print(f"Total time taken: {test_runner.duration.elapsed()}")
PrintTotal ==
    /\ phase = "main" /\ pc = "after"
    /\ LET r == elapsed(duration) IN
        /\ elapsedOut' = Call(duration, r)
        /\ IF r.kind = "raise"
           THEN pc' = "raised" /\ exc' = r.exc /\ printed' = FALSE
           ELSE pc' = "done" /\ exc' = exc /\ printed' = TRUE
    /\ UNCHANGED <<phase, clock, suite_dirs, disk, i, duration, test_suites,
                   bodyExc, recordVars, drv>>

\* a caller evaluates test_runner.duration.elapsed() at any moment
ElapsedCall ==
    /\ phase = "main" /\ pc \in {"with", "body", "unwind", "raised", "done"}
    /\ elapsedOut' = Call(duration, elapsed(duration))
    /\ UNCHANGED <<phase, clock, suite_dirs, disk, pc, i, duration, test_suites,
                   exc, bodyExc, printed, recordVars, drv>>

Next ==
    \/ Tick
    \/ TimerEnter
    \/ AddTestSuite
    \/ TimerExit
    \/ PrintTotal
    \/ ElapsedCall

Spec == Init /\ [][Next]_vars

----------------------------------------------------------------------------
(* TestRecord.set_result call sequences *)

Targets == {"local", "board"}

\* a TestRecord as TestRecord.__init__ leaves it
InitRecord ==
    /\ phase = "record"
    /\ clock = 1
    /\ \E t \in Targets : record = NewTestRecord(<<"basic.sh">>, <<"basic", "test_a">>, t)
    /\ setCalls = <<>>
    /\ MainIdle
    /\ DriverIdle

\* a caller invokes record.set_result(r); the setter has no guard
SetResult ==
    /\ phase = "record" /\ Len(setCalls) < MaxCalls
    /\ \E r \in TestResult :
        /\ record' = set_result(record, r, clock)
        /\ setCalls' = Append(setCalls, r)
    /\ UNCHANGED <<phase, clock, mainVars, drv>>

NextRecord ==
    \/ Tick
    \/ SetResult

SpecRecord == InitRecord /\ [][NextRecord]_vars

----------------------------------------------------------------------------
(* Strings: a str is the sequence of its characters *)

\* the characters used, in code-point order (Python compares str by code point)
Alphabet ==
    <<"\n", ".", "/", ":", "_", "a", "b", "c", "d", "e", "f", "g", "h", "i",
      "j", "k", "l", "m", "n", "o", "p", "q", "r", "s", "t", "u", "v", "w",
      "x", "y", "z">>

Ord(c) == CHOOSE n \in 1..Len(Alphabet) : Alphabet[n] = c

\* a < b on str
RECURSIVE StrLess(_, _)
StrLess(a, b) ==
    IF b = <<>> THEN FALSE
    ELSE IF a = <<>> THEN TRUE
    ELSE IF Head(a) # Head(b) THEN Ord(Head(a)) < Ord(Head(b))
    ELSE StrLess(Tail(a), Tail(b))

\* str.endswith
EndsWith(str, suf) ==
    /\ Len(str) >= Len(suf)
    /\ SubSeq(str, Len(str) - Len(suf) + 1, Len(str)) = suf

\* str.startswith
StartsWith(str, pre) ==
    /\ Len(str) >= Len(pre)
    /\ SubSeq(str, 1, Len(pre)) = pre

\* str.rfind(c), 0-based as in Python; -1 when c does not occur
RFind(str, c) ==
    LET hits == { n \in 1..Len(str) : str[n] = c } IN
    IF hits = {} THEN 0 - 1
    ELSE (CHOOSE n \in hits : \A m \in hits : m <= n) - 1

Whitespace == {"\n", " ", "\t"}

\* str.strip()
RECURSIVE LStrip(_)
LStrip(str) ==
    IF str # <<>> /\ Head(str) \in Whitespace THEN LStrip(Tail(str)) ELSE str

RECURSIVE RStrip(_)
RStrip(str) ==
    IF str # <<>> /\ str[Len(str)] \in Whitespace
    THEN RStrip(SubSeq(str, 1, Len(str) - 1))
    ELSE str

Strip(str) == RStrip(LStrip(str))

\* str.split(sep) for a one-character sep: "" splits into [""]
RECURSIVE Split(_, _)
Split(str, sep) ==
    LET hits == { n \in 1..Len(str) : str[n] = sep } IN
    IF hits = {} THEN <<str>>
    ELSE LET n == CHOOSE h \in hits : \A m \in hits : h <= m IN
         <<SubSeq(str, 1, n - 1)>> \o Split(SubSeq(str, n + 1, Len(str)), sep)

\* sep.join(parts)
RECURSIVE Join(_, _)
Join(parts, sep) ==
    IF parts = <<>> THEN <<>>
    ELSE IF Len(parts) = 1 THEN parts[1]
    ELSE parts[1] \o sep \o Join(Tail(parts), sep)

----------------------------------------------------------------------------
(* Paths: a Path is the sequence of its parts, each part a str *)

DotSh == <<".", "s", "h">>

\* the commented-out constant GLOBAL_TEST_FILE = "tests.sh", the value a caller
\* binds the global to
GLOBAL_TEST_FILE == <<"t", "e", "s", "t", "s", ".", "s", "h">>

\* self.test_suite_dir
test_suite_dir == << <<"s", "u", "i", "t", "e">> >>

\* Path.__lt__: the parts are compared as lists of str
RECURSIVE PathLess(_, _)
PathLess(p, q) ==
    IF q = <<>> THEN FALSE
    ELSE IF p = <<>> THEN TRUE
    ELSE IF Head(p) # Head(q) THEN StrLess(Head(p), Head(q))
    ELSE PathLess(Tail(p), Tail(q))

\* PurePath.suffix: the name from its last dot on, unless that dot is the
\* first or the last character of the name
suffix(name) ==
    LET d == RFind(name, ".") IN
    IF 0 < d /\ d < Len(name) - 1 THEN SubSeq(name, d + 1, Len(name)) ELSE <<>>

\* path.with_suffix("")
with_suffix_empty(path) ==
    LET name == path[Len(path)]
        stem == SubSeq(name, 1, Len(name) - Len(suffix(name))) IN
    SubSeq(path, 1, Len(path) - 1) \o <<stem>>

IsPrefix(p, q) == Len(p) <= Len(q) /\ SubSeq(q, 1, Len(p)) = p

\* test_file.relative_to(self.test_suite_dir).with_suffix(""), and the file's
\* stem when relative_to raises ValueError
test_id(test_file) ==
    IF IsPrefix(test_suite_dir, test_file)
    THEN with_suffix_empty(SubSeq(test_file, Len(test_suite_dir) + 1, Len(test_file)))
    ELSE with_suffix_empty(<<test_file[Len(test_file)]>>)

\* f"{test_id}::{test_function}"
test_name(id, test_function) == Join(id, <<"/">>) \o <<":", ":">> \o test_function

----------------------------------------------------------------------------
(* The suite directory and the child shell *)

A_SH == <<"a", ".", "s", "h">>
B_SH == <<"b", ".", "s", "h">>
N_TXT == <<"n", ".", "t", "x", "t">>
SUB == <<"s", "u", "b">>

\* the files a suite directory may hold, relative to it: test files in the
\* root and in a subdirectory, the global fixture, a file that is no script,
\* and the hidden files ".sh" and ".sh.sh" (both end with ".sh")
FileUniverse ==
    { <<A_SH>>, <<B_SH>>, <<GLOBAL_TEST_FILE>>, <<N_TXT>>, <<SUB, A_SH>>,
      <<DotSh>>, <<DotSh \o DotSh>> }

SETUP == <<"s", "e", "t", "u", "p">>
TEST_A == <<"t", "e", "s", "t", "_", "a">>

FnNames == {SETUP, TEST_A}

\* what "compgen -A function" can print for a file: one line per function the
\* file defines, each function once.  compgen exits 1 when it lists nothing,
\* so a successful child printed at least one name.
Listings ==
    { l \in UNION { [1..n -> FnNames] : n \in 1..Cardinality(FnNames) } :
        \A a, b \in DOMAIN l : a # b => l[a] # l[b] }

RECURSIVE Lines(_)
Lines(l) == IF l = <<>> THEN <<>> ELSE Head(l) \o <<"\n">> \o Lines(Tail(l))

\* subprocess.run(cmd, capture_output=True, text=True, check=True): the child
\* exits 0 with its listing on stdout, exits non-zero (CalledProcessError), or
\* cannot be started at all (an OSError such as FileNotFoundError)
Outcomes ==
    { [kind |-> "ok", listing |-> l, stdout |-> Lines(l)] : l \in Listings }
    \cup { [kind |-> "CalledProcessError", listing |-> <<>>, stdout |-> <<>>],
           [kind |-> "OSError", listing |-> <<>>, stdout |-> <<>>] }

\* the files the walk keeps: file.endswith(".sh") and file != GLOBAL_TEST_FILE
\* (file is the name inside its directory)
IsTestFile(rel) ==
    LET file == rel[Len(rel)] IN EndsWith(file, DotSh) /\ file # GLOBAL_TEST_FILE

Matching(files) == { rel \in files : IsTestFile(rel) }

Perms(S) ==
    { p \in [1..Cardinality(S) -> S] : \A a, b \in DOMAIN p : a # b => p[a] # p[b] }

\* full_path = Path(os.path.join(root, file))
FullPath(rel) == test_suite_dir \o rel

\* os.walk, top down: the suite directory first, then its subdirectory; the
\* files of one directory come in whatever order the file system lists them
WalkOrders(files) ==
    LET root == { rel \in Matching(files) : Len(rel) = 1 }
        sub == Matching(files) \ root IN
    { [n \in 1..Len(p \o q) |-> FullPath((p \o q)[n])] : p \in Perms(root), q \in Perms(sub) }

----------------------------------------------------------------------------
(* BashTestDriver *)

\* a faulty variant of sort: the list is left in walk order
sort_Skipped(walk) == walk

\* test_files.sort()
sort(walk) ==
    CHOOSE p \in Perms({ walk[n] : n \in DOMAIN walk }) :
        \A a, b \in DOMAIN p : a < b => PathLess(p[a], p[b])

\* BashTestDriver._get_test_functions_in_file: the listing of a successful
\* child, split into lines; [] after printing the failure of a child that
\* exited non-zero.  The except clause formats e.stdout and e.stderr, which
\* only CalledProcessError has: for any other exception the handler itself
\* raises AttributeError.
get_test_functions_in_file(outcome) ==
    CASE outcome.kind = "ok" ->
            [exc |-> "none", functions |-> Split(Strip(outcome.stdout), "\n"),
             spawned |-> 1, logged |-> FALSE]
      [] outcome.kind = "CalledProcessError" ->
            [exc |-> "none", functions |-> <<>>, spawned |-> 1, logged |-> TRUE]
      [] OTHER ->
            [exc |-> "AttributeError", functions |-> <<>>, spawned |-> 0,
             logged |-> FALSE]

\* for target in self.targets: for test_function in test_functions:
\*     test_records.append(TestRecord(test_file, f"{test_id}::{test_function}", target))
RecordsFor(test_file, test_functions, tgts) ==
    LET nf == Len(test_functions) IN
    [n \in 1..(Len(tgts) * nf) |->
        NewTestRecord(test_file,
                      test_name(test_id(test_file), test_functions[((n - 1) % nf) + 1]),
                      tgts[((n - 1) \div nf) + 1])]

\* the relative path of a full path the walk produced
Rel(test_file) == SubSeq(test_file, Len(test_suite_dir) + 1, Len(test_file))

----------------------------------------------------------------------------
(* discover_tests, repeated on the same directory *)

\* a BashTestDriver as __init__ leaves it, its caller's settings, and the
\* suite directory it is pointed at
DriverStart ==
    /\ clock = 1
    /\ bound \in BOOLEAN
    /\ suiteFiles \in { F \in SUBSET FileUniverse : Cardinality(F) <= MaxFiles }
    /\ shell \in [Matching(suiteFiles) -> Outcomes]
    /\ targets \in UNION { [1..n -> Targets] : n \in 0..MaxTargets }
    /\ dry_run \in BOOLEAN
    /\ dpc = "ready"
    /\ test_files = <<>>
    /\ idx = 1
    /\ test_records = <<>>
    /\ records = <<>>
    /\ history = <<>>
    /\ spawned = 0
    /\ logged = {}
    /\ error = "none"
    /\ MainIdle
    /\ RecordIdle

InitDriver ==
    /\ phase = "driver"
    /\ out_dir_exists = FALSE
    /\ DriverStart

\* discover_tests up to the sort: the walk reads self.test_suite_dir, which
\* BashTestDriver.__init__ never sets
Walk ==
    /\ phase \in {"driver", "run"} /\ dpc = "ready"
    /\ IF ~bound
       THEN /\ dpc' = "raised"
            /\ error' = "AttributeError"
            /\ UNCHANGED <<test_files, idx, test_records>>
       ELSE /\ \E w \in WalkOrders(suiteFiles) : test_files' = sort(w)
            /\ idx' = 1
            /\ test_records' = <<>>
            /\ dpc' = "scan"
            /\ error' = "none"
    /\ UNCHANGED <<phase, clock, mainVars, recordVars, drvEnv, out_dir_exists,
                   records, history, spawned, logged>>

\* one iteration of "for test_file in test_files"
VisitFile ==
    /\ phase \in {"driver", "run"} /\ dpc = "scan" /\ idx <= Len(test_files)
    /\ LET test_file == test_files[idx]
           r == get_test_functions_in_file(shell[Rel(test_file)]) IN
        /\ spawned' = spawned + r.spawned
        /\ logged' = IF r.logged THEN logged \cup {test_file} ELSE logged
        /\ IF r.exc # "none"
           THEN /\ dpc' = "raised"
                /\ error' = r.exc
                /\ UNCHANGED <<idx, test_records>>
           ELSE /\ test_records' = test_records \o RecordsFor(test_file, r.functions, targets)
                /\ idx' = idx + 1
                /\ UNCHANGED <<dpc, error>>
    /\ UNCHANGED <<phase, clock, mainVars, recordVars, drvEnv, out_dir_exists,
                   test_files, records, history>>

\* return test_records
Return ==
    /\ phase \in {"driver", "run"} /\ dpc = "scan" /\ idx > Len(test_files)
    /\ records' = test_records
    /\ history' = Append(history, [n \in DOMAIN test_records |-> test_records[n].name])
    /\ dpc' = "returned"
    /\ UNCHANGED <<phase, clock, mainVars, recordVars, drvEnv, out_dir_exists,
                   test_files, idx, test_records, spawned, logged, error>>

\* the caller runs discovery again on the unchanged directory
Again ==
    /\ phase = "driver" /\ dpc = "returned" /\ Len(history) < MaxRuns
    /\ dpc' = "ready"
    /\ UNCHANGED <<phase, clock, mainVars, recordVars, drvEnv, out_dir_exists,
                   test_files, idx, test_records, records, history, spawned,
                   logged, error>>

NextDriver ==
    \/ Walk
    \/ VisitFile
    \/ Return
    \/ Again

SpecDriver == InitDriver /\ [][NextDriver]_vars

----------------------------------------------------------------------------
(* discover_tests, then run_tests *)

InitRun ==
    /\ phase = "run"
    /\ out_dir_exists \in BOOLEAN
    /\ DriverStart

\* TestRunner.run_tests: _prepare_out_dir (mkdir unless the directory
\* exists), then pass; no record is touched and the driver is not called
RunTests ==
    /\ phase = "run" /\ dpc = "returned"
    /\ out_dir_exists' = TRUE
    /\ dpc' = "ended"
    /\ UNCHANGED <<phase, clock, mainVars, recordVars, drvEnv, test_files, idx,
                   test_records, records, history, spawned, logged, error>>

NextRun ==
    \/ Walk
    \/ VisitFile
    \/ Return
    \/ RunTests

SpecRun == InitRun /\ [][NextRun]_vars

----------------------------------------------------------------------------
(* Claims checked under Spec: main(), Timer, Duration, add_test_suite *)

\* C4 (as claimed): add_test_suite fails fatally when the manifest is missing
\* or when the manifest declares a global fixture that is not on disk, so a
\* registered suite has a manifest and, when it declares a fixture, the
\* fixture file
C4_FatalOnMissingManifestOrFixture ==
    \A d \in DOMAIN test_suites :
        /\ disk[d].manifest = "ok"
        /\ disk[d].declares => disk[d].fixture

Unset(d) == d.start_time = None \/ d.end_time = None

\* C9 (as claimed): elapsed() returns a value only when start and end are both
\* set, and a call with one of them unset fails with an InvalidState error
C9_ElapsedInvalidState ==
    /\ elapsedOut.out.kind = "value" => ~Unset(elapsedOut.self)
    /\ (elapsedOut.out.kind # "none" /\ Unset(elapsedOut.self)) =>
            (elapsedOut.out.kind = "raise" /\ elapsedOut.out.exc = "InvalidState")

C9_ElapsedOutcome ==
    /\ elapsedOut.out.kind = "value" =>
            /\ ~Unset(elapsedOut.self)
            /\ elapsedOut.out.val = elapsedOut.self.end_time - elapsedOut.self.start_time
    /\ (elapsedOut.out.kind # "none" /\ Unset(elapsedOut.self)) =>
            (elapsedOut.out.kind = "raise" /\ elapsedOut.out.exc = "TypeError")

\* C9 (amended): elapsed() returns a value (end - start) only when start and
\* end are both set; a call with one of them unset raises TypeError, returns
\* no value, and leaves the Duration unchanged
C9_ElapsedTypeError ==
    /\ []C9_ElapsedOutcome
    /\ [][elapsedOut' # elapsedOut => duration' = duration]_vars

\* elapsed() was called inside the with block: start is set, end is not
C9_Witness ==
    /\ elapsedOut.out.kind = "raise"
    /\ elapsedOut.self.start_time # None
    /\ elapsedOut.self.end_time = None

\* C10: a Timer scope stamps start on entry and end on exit, whether the body
\* finished or raised, so elapsed() has a value after the scope; an exception
\* the body raised is never suppressed: main() ends with that exception and
\* never prints 'Total time taken'
C10_TimerStampsAndPropagates ==
    /\ pc \in {"body", "unwind"} => duration.start_time # None
    /\ pc \in {"after", "done", "raised"} =>
            /\ duration.start_time # None
            /\ duration.end_time # None
            /\ elapsed(duration).kind = "value"
    /\ bodyExc # "none" =>
            /\ pc \in {"unwind", "raised"}
            /\ ~printed
            /\ pc = "raised" => exc = bodyExc

\* add_test_suite failed on a missing manifest, the Timer stamped the end and
\* the exception left main()
C10_Witness ==
    /\ pc = "raised"
    /\ bodyExc = "FileNotFoundError"
    /\ duration.end_time # None
    /\ ~printed

----------------------------------------------------------------------------
(* Claims checked under SpecRecord: TestRecord.set_result *)

\* the results the claim calls terminal
Terminal == {"FAILED", "PASSED", "SKIPPED", "DRYRUN"}

\* the result moves the claim allows
Allowed ==
    ({"NOTRUN"} \X {"RUNNING"}) \cup ({"RUNNING"} \X Terminal)

\* C3 (as claimed): over any sequence of set_result calls the result only
\* moves NotRun -> Running -> terminal, a terminal result never changes, and
\* the setter stamps a Duration
C3_SetOnceTransitions ==
    [][record' # record =>
          /\ <<record.result, record'.result>> \in Allowed
          /\ record'.duration.type = "Duration"]_vars

----------------------------------------------------------------------------
(* Claims checked under SpecDriver (discover_tests) and SpecRun (run_tests) *)

Discovered == dpc \in {"returned", "ended"}

\* the functions the interpreter listed for the test files of the suite
ListedCount(files) ==
    LET RECURSIVE Sum(_)
        Sum(S) == IF S = {} THEN 0
                  ELSE LET f == CHOOSE x \in S : TRUE IN
                       Len(shell[f].listing) + Sum(S \ {f})
    IN Sum(Matching(files))

\* C1 (as claimed): after discover_tests there are exactly N x T records, all
\* NotRun, no two with the same (qualifiedName, target)
C1_RecordMatrix ==
    Discovered =>
        /\ Len(records) = ListedCount(suiteFiles) * Len(targets)
        /\ \A n \in DOMAIN records : records[n].result = "NOTRUN"
        /\ \A a, b \in DOMAIN records :
              a # b => <<records[a].name, records[a].target>> #
                       <<records[b].name, records[b].target>>

CountOf(result) == Cardinality({ n \in DOMAIN records : records[n].result = result })

C5_IntrospectionFailureIsLocal ==
    /\ dpc = "raised" => ~bound
    /\ Discovered =>
          \A f \in Matching(suiteFiles) :
              LET Mine(r) == r.file = FullPath(f) IN
              IF shell[f].kind = "ok"
              THEN Len(SelectSeq(records, Mine)) = Len(shell[f].listing) * Len(targets)
              ELSE FullPath(f) \in logged /\ SelectSeq(records, Mine) = <<>>

TEST_PREFIX == <<"t", "e", "s", "t", "_">>
TEARDOWN == <<"t", "e", "a", "r", "d", "o", "w", "n">>

\* the names that are test entry points: the prefix, and neither reserved name
IsTestFunction(fn) == StartsWith(fn, TEST_PREFIX) /\ fn \notin {SETUP, TEARDOWN}

\* C7 (as claimed): every record names a function that matches the test
\* prefix and is neither setup nor teardown, and no record comes from the
\* global fixture file
C7_OnlyTestFunctions ==
    \A n \in DOMAIN test_records :
        LET r == test_records[n] IN
        /\ r.file[Len(r.file)] # GLOBAL_TEST_FILE
        /\ \E fn \in FnNames :
              IsTestFunction(fn) /\ r.name = test_name(test_id(r.file), fn)

\* the qualified names one file contributes: per target, its functions in the
\* order the interpreter listed them
NamesOf(f) ==
    LET l == shell[f].listing IN
    [n \in 1..(Len(targets) * Len(l)) |->
        test_name(with_suffix_empty(f), l[((n - 1) % Len(l)) + 1])]

====
